---- MODULE Spec2Model ----
(***************************************************************************)
(* Model of receiver/k8seventsreceiver/receiver.go: the lifecycle of the   *)
(* Kubernetes events receiver (Start, Shutdown, startWatch), the informer  *)
(* loops it launches, and the flood filter applied to every notification.  *)
(*                                                                         *)
(* The host is one sequential caller: it invokes Start and Shutdown one at *)
(* a time and each call advances in steps (hostPc, hostI), so that the     *)
(* informer goroutines interleave with it.  A panic ends the process.      *)
(***************************************************************************)
EXTENDS Integers, Sequences, FiniteSets, TLC

\* ---------------------------------------------------------------- bounds
MaxTime == 3          \* instants are 0..MaxTime; 0 is the instant of time.Time{}
MaxNamespaces == 2    \* longest configured namespace list
NumOptions == 2       \* len(allOptions) in Start
MaxCalls == 3         \* calls of Start and Shutdown by the host, together
MaxNotes == 2         \* notifications dispatched by all informers together
MaxWatches == 2       \* watches launched by all Start calls together

VARIABLES
    Namespaces,       \* kr.config.Namespaces
    startTime,        \* kr.startTime
    cancel,           \* kr.cancel: NilCancel, or the id of the context it cancels
    ctxDone,          \* ids of the lifetime contexts that were cancelled
    stopperChanList,  \* kr.stopperChanList: channel ids, in append order
    chanClosed,       \* chanClosed[c]: channel c was closed
    watches,          \* watches[c]: the informer goroutine running on channel c
    hostPc,           \* where the host's current call stands
    hostI,            \* loop index of the current call (option, namespace, stopper)
    startCalls,       \* number of Start calls made
    shutdownCalls,    \* number of Shutdown calls made
    lastOp,           \* the call that returned last
    lastErr,          \* what it returned
    applied,          \* options applied without error by the current Start
    fatalReports,     \* componentstatus.ReportStatus calls of the current Start
    notes,            \* notifications dispatched so far
    last              \* the last notification dispatched and what was done with it

vars == <<Namespaces, startTime, cancel, ctxDone, stopperChanList, chanClosed,
          watches, hostPc, hostI, startCalls, shutdownCalls, lastOp, lastErr,
          applied, fatalReports, notes, last>>

\* ------------------------------------------------------------ time.Time
\* A time.Time is an instant and a location pointer.  Values decoded from the
\* API carry the Local location; time.Time{} has the zero instant and no
\* location.  The != of getEventTimestamp compares the whole struct, Before
\* compares instants only.
Instants == 0..MaxTime
ZeroTime == [t |-> 0, loc |-> "nil"]
Times == {ZeroTime} \cup {[t |-> i, loc |-> "Local"] : i \in Instants}
Before(a, b) == a.t < b.t

\* The instants time.Now() is tried with in newReceiver: the first real one
\* and the last that leaves a later one.
StartTimes == {[t |-> i, loc |-> "Local"] : i \in {1, MaxTime - 1}}

\* corev1.Event, reduced to its three timestamp fields.
Events == [EventTime : Times, LastTimestamp : Times, FirstTimestamp : Times]

NoEvent == [EventTime |-> ZeroTime, LastTimestamp |-> ZeroTime, FirstTimestamp |-> ZeroTime]
LateEvent == [NoEvent EXCEPT !.EventTime = [t |-> MaxTime, loc |-> "Local"]]

\* The events the informers of the lifecycle specification hand over, and the
\* old objects an update may carry: one without timestamps, one stamped with
\* the latest instant.  SpecFilter hands over every event of Events.
WatchEvents == {NoEvent, LateEvent}
OldEvents == WatchEvents

NamespaceAll == ""
\* The configurations tried: the first n of these names, n = 0..MaxNamespaces.
NsNames == <<"a", "b", "c", "d">>
NamespaceConfigs == {SubSeq(NsNames, 1, n) : n \in 0..MaxNamespaces}

NilCancel == 0
NoNote == [seq |-> 0]

\* ------------------------------------------------------- pure functions
getEventTimestamp_lastFirst(ev) ==
    IF ev.LastTimestamp # ZeroTime THEN ev.LastTimestamp
    ELSE IF ev.EventTime # ZeroTime THEN ev.EventTime
    ELSE IF ev.FirstTimestamp # ZeroTime THEN ev.FirstTimestamp
    ELSE ZeroTime

getEventTimestamp(ev) ==
    IF ev.EventTime # ZeroTime THEN ev.EventTime
    ELSE IF ev.LastTimestamp # ZeroTime THEN ev.LastTimestamp
    ELSE IF ev.FirstTimestamp # ZeroTime THEN ev.FirstTimestamp
    ELSE ZeroTime

allowEvent_after(ev) ==
    LET eventTimestamp == getEventTimestamp(ev)
    IN  Before(startTime, eventTimestamp)

allowEvent_zeroPasses(ev) ==
    LET eventTimestamp == getEventTimestamp(ev)
    IN  eventTimestamp = ZeroTime \/ ~Before(eventTimestamp, startTime)

allowEvent(ev) ==
    LET eventTimestamp == getEventTimestamp(ev)
    IN  ~Before(eventTimestamp, startTime)

\* handleEvent, up to its blocking call: the ConsumeLogs calls it issues, each
\* given as the number of log records it carries.
handleEvent_noFilter(ev) == <<1>>
handleEvent(ev) == IF allowEvent(ev) THEN <<1>> ELSE <<>>

\* cache.ResourceEventHandlerFuncs as filled in by startWatch: AddFunc and
\* UpdateFunc are set, DeleteFunc is left nil, and the informer calls only the
\* handlers that are set.
AddFunc(obj) == handleEvent(obj)
UpdateFunc_old(old, obj) == handleEvent(old)
UpdateFunc(old, obj) == handleEvent(obj)
RegisteredHandlers == {"add", "update"}

Kinds == {"add", "update", "delete"}
Dispatch(kind, old, obj) ==
    IF kind \notin RegisteredHandlers THEN <<>>
    ELSE IF kind = "add" THEN AddFunc(obj)
    ELSE UpdateFunc(old, obj)

RECURSIVE Sum(_)
Sum(s) == IF Len(s) = 0 THEN 0 ELSE Head(s) + Sum(Tail(s))

\* ------------------------------------------------------------------ Init
\* newReceiver: startTime is time.Now(), a real instant; nothing else is set.
Init ==
    /\ Namespaces \in NamespaceConfigs
    /\ startTime \in StartTimes
    /\ cancel = NilCancel
    /\ ctxDone = {}
    /\ stopperChanList = <<>>
    /\ chanClosed = <<>>
    /\ watches = <<>>
    /\ hostPc = "idle"
    /\ hostI = 0
    /\ startCalls = 0
    /\ shutdownCalls = 0
    /\ lastOp = "none"
    /\ lastErr = "nil"
    /\ applied = 0
    /\ fatalReports = 0
    /\ notes = 0
    /\ last = NoNote

receiverVars == <<Namespaces, startTime, cancel, ctxDone, stopperChanList, chanClosed, watches>>
noteVars == <<notes, last>>
callVars == <<startCalls, shutdownCalls>>

Return(op, err) ==
    /\ hostPc' = "idle"
    /\ hostI' = 0
    /\ lastOp' = op
    /\ lastErr' = err

\* ----------------------------------------------------------------- Start
WatchTargets_both == <<NamespaceAll>> \o Namespaces

\* The namespaces Start passes to startWatch, in order (lines 85-91).
WatchTargets == IF Len(Namespaces) = 0 THEN <<NamespaceAll>> ELSE Namespaces

\* StartCall, were Start to take the start time anew.
StartCall_recapture ==
    /\ hostPc = "idle"
    /\ startCalls + shutdownCalls < MaxCalls
    /\ Len(watches) + Len(WatchTargets) <= MaxWatches
    /\ startCalls' = startCalls + 1
    /\ cancel' = startCalls + 1
    /\ startTime' \in {[t |-> i, loc |-> "Local"] : i \in startTime.t..MaxTime}
    /\ applied' = 0
    /\ fatalReports' = 0
    /\ hostPc' = IF NumOptions = 0 THEN "client" ELSE "opts"
    /\ hostI' = 1
    /\ UNCHANGED <<Namespaces, ctxDone, stopperChanList, chanClosed, watches,
                   shutdownCalls, lastOp, lastErr, notes, last>>

\* StartCall, were the lifetime context made only once the watches start.
StartCall_noContext ==
    /\ hostPc = "idle"
    /\ startCalls + shutdownCalls < MaxCalls
    /\ Len(watches) + Len(WatchTargets) <= MaxWatches
    /\ startCalls' = startCalls + 1
    /\ applied' = 0
    /\ fatalReports' = 0
    /\ hostPc' = IF NumOptions = 0 THEN "client" ELSE "opts"
    /\ hostI' = 1
    /\ UNCHANGED <<Namespaces, startTime, cancel, ctxDone, stopperChanList, chanClosed,
                   watches, shutdownCalls, lastOp, lastErr, notes, last>>

\* Line 67: a fresh cancellable context; kr.cancel now cancels it.
StartCall ==
    /\ hostPc = "idle"
    /\ startCalls + shutdownCalls < MaxCalls
    /\ Len(watches) + Len(WatchTargets) <= MaxWatches
    /\ startCalls' = startCalls + 1
    /\ cancel' = startCalls + 1
    /\ applied' = 0
    /\ fatalReports' = 0
    /\ hostPc' = IF NumOptions = 0 THEN "client" ELSE "opts"
    /\ hostI' = 1
    /\ UNCHANGED <<Namespaces, startTime, ctxDone, stopperChanList, chanClosed, watches,
                   shutdownCalls, lastOp, lastErr, notes, last>>

\* ApplyOption, were a failed option reported and the loop carried on.
ApplyOption_continue(ok) ==
    /\ hostPc = "opts"
    /\ applied' = applied + (IF ok THEN 1 ELSE 0)
    /\ fatalReports' = fatalReports + (IF ok THEN 0 ELSE 1)
    /\ hostI' = hostI + 1
    /\ hostPc' = IF hostI = NumOptions THEN "client" ELSE "opts"
    /\ UNCHANGED <<lastOp, lastErr>>
    /\ UNCHANGED <<receiverVars, callVars, noteVars>>

\* Lines 71-77: one iteration of the option loop; ok is what opt(kr) returned.
ApplyOption(ok) ==
    /\ hostPc = "opts"
    /\ IF ok
       THEN /\ applied' = applied + 1
            /\ hostI' = hostI + 1
            /\ hostPc' = IF hostI = NumOptions THEN "client" ELSE "opts"
            /\ UNCHANGED <<fatalReports, lastOp, lastErr>>
       ELSE /\ fatalReports' = fatalReports + 1
            /\ Return("Start", "option")
            /\ UNCHANGED applied
    /\ UNCHANGED <<receiverVars, callVars, noteVars>>

\* startWatch, were the watch of a namespace put back on the stopper an earlier
\* watch of that namespace was given.
startWatch_reuse(ns) ==
    LET earlier == {w \in DOMAIN watches : watches[w].ns = ns}
        fresh == Len(chanClosed) + 1
        stopperChan == IF earlier = {} THEN fresh
                       ELSE watches[CHOOSE w \in earlier : TRUE].stopper
    IN  /\ chanClosed' = Append(chanClosed, FALSE)
        /\ stopperChanList' = Append(stopperChanList, stopperChan)
        /\ watches' = Append(watches,
               [ns |-> ns, stopper |-> stopperChan, startNo |-> startCalls,
                pc |-> "running", allowed |-> 0, calls |-> 0, records |-> 0,
                ends |-> 0, errs |-> 0, consumerErrs |-> 0])

\* startWatch (lines 111-124) with startWatchingNamespace (lines 138-153):
\* make the channel, append it, launch the informer goroutine on it.
startWatch(ns) ==
    LET stopperChan == Len(chanClosed) + 1
    IN  /\ chanClosed' = Append(chanClosed, FALSE)
        /\ stopperChanList' = Append(stopperChanList, stopperChan)
        /\ watches' = Append(watches,
               [ns |-> ns, stopper |-> stopperChan, startNo |-> startCalls,
                pc |-> "running", allowed |-> 0, calls |-> 0, records |-> 0,
                ends |-> 0, errs |-> 0, consumerErrs |-> 0])

\* GetClient, were the first watch started before the client error is looked at.
GetClient_watchFirst(ok) ==
    /\ hostPc = "client"
    /\ IF ok
       THEN /\ hostPc' = "watch"
            /\ hostI' = 1
            /\ UNCHANGED <<lastOp, lastErr, stopperChanList, chanClosed, watches>>
       ELSE /\ startWatch(WatchTargets[1])
            /\ Return("Start", "client")
    /\ UNCHANGED <<Namespaces, startTime, cancel, ctxDone, callVars, noteVars,
                   applied, fatalReports>>

\* Lines 79-82: ok is whether getK8sClient returned a client.
GetClient(ok) ==
    /\ hostPc = "client"
    /\ IF ok
       THEN /\ hostPc' = "watch"
            /\ hostI' = 1
            /\ UNCHANGED <<lastOp, lastErr>>
       ELSE Return("Start", "client")
    /\ UNCHANGED <<receiverVars, callVars, noteVars, applied, fatalReports>>

\* One iteration of the loop of lines 85-91; after the last one Start returns nil.
StartWatchStep ==
    /\ hostPc = "watch"
    /\ startWatch(WatchTargets[hostI])
    /\ IF hostI = Len(WatchTargets)
       THEN Return("Start", "nil")
       ELSE /\ hostI' = hostI + 1
            /\ UNCHANGED <<hostPc, lastOp, lastErr>>
    /\ UNCHANGED <<Namespaces, startTime, cancel, ctxDone, callVars, noteVars,
                   applied, fatalReports>>

\* -------------------------------------------------------------- Shutdown
CancelIsNil_never == FALSE
CancelIsNil == cancel = NilCancel

\* ShutdownCall, were the context cancelled before the stoppers are closed.
ShutdownCall_cancelFirst ==
    /\ hostPc = "idle"
    /\ startCalls + shutdownCalls < MaxCalls
    /\ shutdownCalls' = shutdownCalls + 1
    /\ IF CancelIsNil
       THEN /\ Return("Shutdown", "nil")
            /\ UNCHANGED ctxDone
       ELSE /\ ctxDone' = ctxDone \cup {cancel}
            /\ hostPc' = IF Len(stopperChanList) = 0 THEN "cancel" ELSE "close"
            /\ hostI' = 1
            /\ UNCHANGED <<lastOp, lastErr>>
    /\ UNCHANGED <<Namespaces, startTime, cancel, stopperChanList, chanClosed, watches,
                   startCalls, noteVars, applied, fatalReports>>

\* Lines 96-99: the nil check; with a cancel function the close loop begins.
ShutdownCall ==
    /\ hostPc = "idle"
    /\ startCalls + shutdownCalls < MaxCalls
    /\ shutdownCalls' = shutdownCalls + 1
    /\ IF CancelIsNil
       THEN Return("Shutdown", "nil")
       ELSE /\ hostPc' = IF Len(stopperChanList) = 0 THEN "cancel" ELSE "close"
            /\ hostI' = 1
            /\ UNCHANGED <<lastOp, lastErr>>
    /\ UNCHANGED <<receiverVars, startCalls, noteVars, applied, fatalReports>>

\* Lines 101-103: close(stopperChan); closing a closed channel panics.
ShutdownClose ==
    /\ hostPc = "close"
    /\ LET stopperChan == stopperChanList[hostI]
       IN  IF chanClosed[stopperChan]
           THEN /\ hostPc' = "panicked"
                /\ UNCHANGED <<chanClosed, hostI>>
           ELSE /\ chanClosed' = [chanClosed EXCEPT ![stopperChan] = TRUE]
                /\ hostI' = hostI + 1
                /\ hostPc' = IF hostI = Len(stopperChanList) THEN "cancel" ELSE "close"
    /\ UNCHANGED <<Namespaces, startTime, cancel, ctxDone, stopperChanList, watches,
                   callVars, lastOp, lastErr, noteVars, applied, fatalReports>>

\* ShutdownCancel, were Shutdown to wait for every informer loop to end.
ShutdownCancel_wait ==
    /\ hostPc = "cancel"
    /\ \A w \in DOMAIN watches : watches[w].pc = "stopped"
    /\ IF cancel = NilCancel
       THEN /\ hostPc' = "panicked"
            /\ UNCHANGED <<ctxDone, hostI, lastOp, lastErr>>
       ELSE /\ ctxDone' = ctxDone \cup {cancel}
            /\ Return("Shutdown", "nil")
    /\ UNCHANGED <<Namespaces, startTime, cancel, stopperChanList, chanClosed, watches,
                   callVars, noteVars, applied, fatalReports>>

\* Lines 104-105: kr.cancel() and return nil; calling a nil func panics.
ShutdownCancel ==
    /\ hostPc = "cancel"
    /\ IF cancel = NilCancel
       THEN /\ hostPc' = "panicked"
            /\ UNCHANGED <<ctxDone, hostI, lastOp, lastErr>>
       ELSE /\ ctxDone' = ctxDone \cup {cancel}
            /\ Return("Shutdown", "nil")
    /\ UNCHANGED <<Namespaces, startTime, cancel, stopperChanList, chanClosed, watches,
                   callVars, noteVars, applied, fatalReports>>

\* ------------------------------------------------------- informer loops
Alive == hostPc # "panicked"

\* Notify, were deliveries made under a lock shared by all watches.
Notify_locked(w, kind, old, obj) ==
    /\ Alive
    /\ watches[w].pc = "running"
    /\ \A v \in DOMAIN watches : watches[v].pc # "delivering"
    /\ notes < MaxNotes
    /\ notes' = notes + 1
    /\ LET out == Dispatch(kind, old, obj)
           ok == allowEvent(obj)
       IN  /\ watches' = [watches EXCEPT
                  ![w].pc = IF Len(out) > 0 THEN "delivering" ELSE "running",
                  ![w].allowed = @ + (IF kind \in RegisteredHandlers /\ ok THEN 1 ELSE 0),
                  ![w].calls = @ + Len(out),
                  ![w].records = @ + Sum(out)]
           /\ last' = [seq |-> notes + 1, kind |-> kind, ev |-> obj,
                       ts |-> getEventTimestamp(obj), start |-> startTime,
                       allowed |-> ok, calls |-> Len(out)]
    /\ UNCHANGED <<Namespaces, startTime, cancel, ctxDone, stopperChanList, chanClosed,
                   hostPc, hostI, callVars, lastOp, lastErr, applied, fatalReports>>

\* Notify, were the handler to run handleEvent on a goroutine of its own.
Notify_async(w, kind, old, obj) ==
    /\ Alive
    /\ watches[w].pc \in {"running", "delivering"}
    /\ notes < MaxNotes
    /\ notes' = notes + 1
    /\ LET out == Dispatch(kind, old, obj)
           ok == allowEvent(obj)
       IN  /\ watches' = [watches EXCEPT
                  ![w].pc = IF Len(out) > 0 THEN "delivering" ELSE @,
                  ![w].allowed = @ + (IF kind \in RegisteredHandlers /\ ok THEN 1 ELSE 0),
                  ![w].calls = @ + Len(out),
                  ![w].records = @ + Sum(out)]
           /\ last' = [seq |-> notes + 1, kind |-> kind, ev |-> obj,
                       ts |-> getEventTimestamp(obj), start |-> startTime,
                       allowed |-> ok, calls |-> Len(out)]
    /\ UNCHANGED <<Namespaces, startTime, cancel, ctxDone, stopperChanList, chanClosed,
                   hostPc, hostI, callVars, lastOp, lastErr, applied, fatalReports>>

\* controller.Run(stopper) hands one notification to the registered handlers.
\* The handler runs on the loop's goroutine up to its ConsumeLogs call.
Notify(w, kind, old, obj) ==
    /\ Alive
    /\ watches[w].pc = "running"
    /\ notes < MaxNotes
    /\ notes' = notes + 1
    /\ LET out == Dispatch(kind, old, obj)
           ok == allowEvent(obj)
       IN  /\ watches' = [watches EXCEPT
                  ![w].pc = IF Len(out) > 0 THEN "delivering" ELSE "running",
                  ![w].allowed = @ + (IF kind \in RegisteredHandlers /\ ok THEN 1 ELSE 0),
                  ![w].calls = @ + Len(out),
                  ![w].records = @ + Sum(out)]
           /\ last' = [seq |-> notes + 1, kind |-> kind, ev |-> obj,
                       ts |-> getEventTimestamp(obj), start |-> startTime,
                       allowed |-> ok, calls |-> Len(out)]
    /\ UNCHANGED <<Namespaces, startTime, cancel, ctxDone, stopperChanList, chanClosed,
                   hostPc, hostI, callVars, lastOp, lastErr, applied, fatalReports>>

\* ConsumeReturn, were a failed delivery tried again.
ConsumeReturn_retry(w, failed) ==
    /\ Alive
    /\ watches[w].pc = "delivering"
    /\ watches' = [watches EXCEPT ![w].pc = IF failed THEN "delivering" ELSE "running",
                                  ![w].calls = @ + (IF failed THEN 1 ELSE 0),
                                  ![w].records = @ + (IF failed THEN 1 ELSE 0),
                                  ![w].allowed = @ + (IF failed THEN 1 ELSE 0),
                                  ![w].ends = @ + 1,
                                  ![w].errs = @ + (IF failed THEN 1 ELSE 0),
                                  ![w].consumerErrs = @ + (IF failed THEN 1 ELSE 0)]
    /\ watches[w].calls < MaxNotes + 1
    /\ UNCHANGED <<Namespaces, startTime, cancel, ctxDone, stopperChanList, chanClosed,
                   hostPc, hostI, callVars, lastOp, lastErr, applied, fatalReports, noteVars>>

\* ConsumeLogs returns consumerErr (failed: it is not nil); EndLogsOp is handed
\* it and handleEvent returns to the loop (lines 131-133).
ConsumeReturn(w, failed) ==
    /\ Alive
    /\ watches[w].pc = "delivering"
    /\ watches' = [watches EXCEPT ![w].pc = "running",
                                  ![w].ends = @ + 1,
                                  ![w].errs = @ + (IF failed THEN 1 ELSE 0),
                                  ![w].consumerErrs = @ + (IF failed THEN 1 ELSE 0)]
    /\ UNCHANGED <<Namespaces, startTime, cancel, ctxDone, stopperChanList, chanClosed,
                   hostPc, hostI, callVars, lastOp, lastErr, applied, fatalReports, noteVars>>

\* LoopExit, were the informer run on a channel that nobody closes.
LoopExit_otherChan(w) ==
    /\ Alive
    /\ watches[w].pc = "running"
    /\ FALSE
    /\ UNCHANGED vars

\* controller.Run returns once it sees its stop channel closed.
LoopExit(w) ==
    /\ Alive
    /\ watches[w].pc = "running"
    /\ chanClosed[watches[w].stopper]
    /\ watches' = [watches EXCEPT ![w].pc = "stopped"]
    /\ UNCHANGED <<Namespaces, startTime, cancel, ctxDone, stopperChanList, chanClosed,
                   hostPc, hostI, callVars, lastOp, lastErr, applied, fatalReports, noteVars>>

Next ==
    \/ StartCall
    \/ \E ok \in BOOLEAN : ApplyOption(ok)
    \/ \E ok \in BOOLEAN : GetClient(ok)
    \/ StartWatchStep
    \/ ShutdownCall
    \/ ShutdownClose
    \/ ShutdownCancel
    \/ \E w \in DOMAIN watches, obj \in WatchEvents :
           \/ Notify(w, "add", NoEvent, obj)
           \/ \E old \in OldEvents : Notify(w, "update", old, obj)
           \/ Notify(w, "delete", NoEvent, obj)
    \/ \E w \in DOMAIN watches, failed \in BOOLEAN : ConsumeReturn(w, failed)
    \/ \E w \in DOMAIN watches : LoopExit(w)

Spec == Init /\ [][Next]_vars

\* The scheduling the liveness of the loops rests on: a loop that can see its
\* stop channel closed does return.  Nothing is assumed of the consumer.
LoopFairness ==
    \A w \in 1..MaxWatches : WF_vars(w \in DOMAIN watches /\ LoopExit(w))

\* The runs the liveness of the loops is checked on: Starts that succeed,
\* Shutdowns, "added" notifications, deliveries that may or may not return.
NextLive ==
    \/ StartCall
    \/ ApplyOption(TRUE)
    \/ GetClient(TRUE)
    \/ StartWatchStep
    \/ ShutdownCall
    \/ ShutdownClose
    \/ ShutdownCancel
    \/ \E w \in DOMAIN watches, obj \in WatchEvents : Notify(w, "add", NoEvent, obj)
    \/ \E w \in DOMAIN watches : ConsumeReturn(w, FALSE)
    \/ \E w \in DOMAIN watches : LoopExit(w)

SpecLive == Init /\ [][NextLive]_vars /\ LoopFairness

\* The flood filter on every event: one successful Start, then "added"
\* notifications carrying any event of Events.
NextFilter ==
    \/ (startCalls = 0 /\ StartCall)
    \/ ApplyOption(TRUE)
    \/ GetClient(TRUE)
    \/ StartWatchStep
    \/ \E w \in DOMAIN watches, obj \in Events : Notify(w, "add", NoEvent, obj)
    \/ \E w \in DOMAIN watches : ConsumeReturn(w, FALSE)

SpecFilter == Init /\ [][NextFilter]_vars

\* ---------------------------------------------------------------- claims
StartSucceeded == hostPc = "idle" /\ lastOp = "Start" /\ lastErr = "nil"
StartFailed == hostPc = "idle" /\ lastOp = "Start" /\ lastErr # "nil"
\* The watches launched by the latest Start call, in launch order.
WatchesOfThisStart == SelectSeq(watches, LAMBDA r : r.startNo = startCalls)

\* C1: after a successful Start, a Shutdown that follows a Shutdown does not
\* panic: the host is never left panicked in a Shutdown whose predecessor was
\* a Shutdown.
C1_SecondShutdownNoPanic == ~(hostPc = "panicked" /\ lastOp = "Shutdown")

\* C2: a Shutdown made while Start was never called returns nil at once and
\* changes nothing of the receiver: no stopper signalled, no context
\* cancelled, every field as before.
C2_ShutdownBeforeStartNoop ==
    [][(startCalls = 0 /\ shutdownCalls' = shutdownCalls + 1)
         => /\ UNCHANGED receiverVars
            /\ hostPc' = "idle"
            /\ lastOp' = "Shutdown"
            /\ lastErr' = "nil"]_vars

C2_Witness ==
    startCalls = 0 /\ shutdownCalls >= 2 /\ hostPc = "idle" /\ lastOp = "Shutdown"

\* C3: while Start is applying options or obtaining the client, and after it
\* has returned an error, no watch of this Start exists and no stopper of it
\* is in the list; every stopper in the list belongs to a launched watch.
C3_FailedStartNoWatch ==
    (hostPc \in {"opts", "client"} \/ StartFailed)
        => /\ Len(WatchesOfThisStart) = 0
           /\ Len(stopperChanList) = Len(watches)
           /\ \A i \in DOMAIN stopperChanList :
                  watches[stopperChanList[i]].startNo < startCalls

C3_Witness == StartFailed /\ lastErr = "client" /\ Len(watches) > 0

\* C4: the watches a Start launches are those of the configuration, in order:
\* the all-namespaces sentinel alone when no namespace is configured, else one
\* per configured entry; each launch appended one stopper of its own.  While
\* Start is launching, the watches so far are a prefix of these.
C4_WatchesFollowConfig ==
    LET want == IF Len(Namespaces) = 0 THEN <<NamespaceAll>> ELSE Namespaces
        mine == WatchesOfThisStart
        base == Len(stopperChanList) - Len(mine)
    IN  (hostPc = "watch" \/ StartSucceeded)
            => /\ Len(mine) = (IF hostPc = "watch" THEN hostI - 1 ELSE Len(want))
               /\ \A i \in 1..Len(mine) :
                      /\ mine[i].ns = want[i]
                      /\ stopperChanList[base + i] = mine[i].stopper
               /\ Len(stopperChanList) = Len(watches)
               /\ \A i, j \in DOMAIN stopperChanList :
                      i # j => stopperChanList[i] # stopperChanList[j]

C4_Witness ==
    StartSucceeded /\ Len(Namespaces) = 2 /\ Len(WatchesOfThisStart) = 2

\* C5: the filter accepts a notification's event exactly when its resolved
\* timestamp is at or after the start time.
C5_AcceptIffNotBefore ==
    last.seq > 0 => (last.allowed <=> last.ts.t >= startTime.t)

C5_Witness == last.seq > 0 /\ last.ts.t = startTime.t /\ last.allowed /\ last.calls = 1

\* C6: an event with none of its three timestamps set is rejected and not
\* delivered, whatever the start time.
C6_NoTimestampRejected ==
    (last.seq > 0 /\ last.ev = NoEvent) => (~last.allowed /\ last.calls = 0)

C6_Witness == last.seq > 0 /\ last.ev = NoEvent /\ startTime.t = MaxTime - 1

\* C7: the resolved timestamp is EventTime when that is set, else LastTimestamp
\* when that is set, else FirstTimestamp when that is set, else the zero value.
C7_TimestampPriority ==
    last.seq > 0 =>
        LET ev == last.ev
        IN  /\ ev.EventTime # ZeroTime => last.ts = ev.EventTime
            /\ (ev.EventTime = ZeroTime /\ ev.LastTimestamp # ZeroTime)
                   => last.ts = ev.LastTimestamp
            /\ (ev.EventTime = ZeroTime /\ ev.LastTimestamp = ZeroTime
                    /\ ev.FirstTimestamp # ZeroTime)
                   => last.ts = ev.FirstTimestamp
            /\ (ev.EventTime = ZeroTime /\ ev.LastTimestamp = ZeroTime
                    /\ ev.FirstTimestamp = ZeroTime)
                   => last.ts = ZeroTime

C7_Witness ==
    /\ last.seq > 0
    /\ last.ev.EventTime # ZeroTime
    /\ last.ev.LastTimestamp # ZeroTime
    /\ last.ev.FirstTimestamp # ZeroTime
    /\ last.ev.EventTime.t < last.ev.LastTimestamp.t
    /\ last.ts = last.ev.EventTime

\* C8: no step changes the start time, and the start time a notification was
\* filtered with is the one the receiver holds.
C8_StartTimeFixed ==
    [][/\ startTime' = startTime
       /\ last'.seq > 0 => last'.start = startTime]_vars

C8_Witness ==
    last.seq > 0 /\ startCalls = 2 /\ shutdownCalls = 1 /\ hostPc = "idle"

\* C9: on every watch the ConsumeLogs calls made equal the notifications the
\* filter accepted, and each call carried one log record.
C9_OneDeliveryPerAccepted ==
    \A w \in DOMAIN watches :
        /\ watches[w].calls = watches[w].allowed
        /\ watches[w].records = watches[w].calls

C9_Witness ==
    /\ Namespaces = <<"a", "b">>
    /\ Len(watches) = 2
    /\ watches[1].ns = "a" /\ watches[1].calls = 1 /\ watches[1].records = 1
    /\ watches[2].ns = "b" /\ watches[2].calls = 0 /\ watches[2].records = 0
    /\ notes = 1

\* C10: an "added" and an "updated" notification are delivered exactly when
\* the filter accepts the (new) object they carry; a deletion is never
\* delivered.
C10_AddUpdateAlikeNoDelete ==
    last.seq > 0 =>
        /\ last.kind \in {"add", "update"}
               => last.calls = (IF allowEvent(last.ev) THEN 1 ELSE 0)
        /\ last.kind = "delete" => last.calls = 0

C10_Witness == last.seq > 0 /\ last.kind = "update" /\ last.calls = 1

\* C11: when a delivery returns, with or without an error, EndLogsOp is called
\* once and is handed the consumer's error, no further ConsumeLogs call is
\* made for that event, and the loop is back at taking notifications.
C11_ErrorRecordedNoRetry ==
    [][\A w \in DOMAIN watches :
          (watches[w].pc = "delivering" /\ watches'[w] # watches[w])
              => /\ watches'[w].pc = "running"
                 /\ watches'[w].calls = watches[w].calls
                 /\ watches'[w].ends = watches[w].ends + 1
                 /\ watches'[w].errs - watches[w].errs
                        = watches'[w].consumerErrs - watches[w].consumerErrs]_vars

\* A watch whose first delivery failed and that has made a second one since.
C11_Witness ==
    \E w \in DOMAIN watches :
        /\ watches[w].consumerErrs = 1 /\ watches[w].errs = 1
        /\ watches[w].ends = 1 /\ watches[w].calls = 2

\* C12: while one watch is blocked in a delivery, every other running watch
\* can still take a notification, pass it through the filter and start a
\* delivery of its own.
C12_BlockedDeliveryStallsOnlyItsLoop ==
    \A w, v \in DOMAIN watches :
        (/\ Alive
         /\ notes < MaxNotes
         /\ watches[w].pc = "delivering"
         /\ watches[v].pc = "running")
            => ENABLED Notify(v, "add", NoEvent, LateEvent)

\* Two watches are inside ConsumeLogs at once.
C12_Witness ==
    \E w, v \in DOMAIN watches :
        w # v /\ watches[w].pc = "delivering" /\ watches[v].pc = "delivering"

\* C13: on one watch a ConsumeLogs call starts only when every earlier call
\* of that watch has returned, and the notification delivered is the one just
\* observed; so at most one delivery of a watch is in flight.
C13_DeliveriesInOrderPerWatch ==
    [][\A w \in DOMAIN watches :
          /\ watches'[w].calls > watches[w].calls
                 => /\ watches[w].calls = watches[w].ends
                    /\ watches'[w].calls = watches[w].calls + 1
                    /\ last'.seq = notes' /\ notes' = notes + 1
          /\ watches'[w].calls - watches'[w].ends
                 = (IF watches'[w].pc = "delivering" THEN 1 ELSE 0)]_vars

\* One watch has delivered two notifications, the first has returned, while
\* nothing was delivered on another watch.
C13_Witness ==
    \E w, v \in DOMAIN watches :
        /\ w # v
        /\ watches[w].calls = 2 /\ watches[w].ends >= 1
        /\ watches[v].calls = 0

ShutdownReturned == hostPc = "idle" /\ lastOp = "Shutdown"

\* C14: a stopper is closed only while the lifetime context is not yet
\* cancelled, and when a Shutdown of a started receiver returns, every stopper
\* in the list is closed and the lifetime context is cancelled.
C14_StoppersThenCancel ==
    [][/\ (\E c \in DOMAIN chanClosed : chanClosed'[c] # chanClosed[c])
              => /\ cancel \notin ctxDone
                 /\ ctxDone' = ctxDone
       /\ (hostPc # "idle" /\ hostPc' = "idle" /\ lastOp' = "Shutdown")
              => /\ \A i \in DOMAIN stopperChanList' : chanClosed'[stopperChanList'[i]]
                 /\ cancel' \in ctxDone'
                 /\ ctxDone' = ctxDone \cup {cancel}
                 /\ lastErr' = "nil"]_vars

\* A Shutdown has returned on a receiver with two watches.
C14_Witness ==
    /\ ShutdownReturned
    /\ Len(stopperChanList) = 2
    /\ chanClosed = <<TRUE, TRUE>>
    /\ cancel \in ctxDone

\* C15: no step of Shutdown waits for an informer loop: whatever the loops are
\* doing, the close of the next stopper and the cancel-and-return are enabled.
C15_ShutdownDoesNotWait ==
    /\ hostPc = "close" => ENABLED ShutdownClose
    /\ hostPc = "cancel" => ENABLED ShutdownCancel

\* Shutdown has returned while one loop is inside ConsumeLogs and another is
\* still running.
C15_Witness ==
    /\ ShutdownReturned
    /\ \E w \in DOMAIN watches : watches[w].pc = "delivering"
    /\ \E w \in DOMAIN watches : watches[w].pc = "running"

\* C16: a closed stopper is never open again, a loop that has stopped stays
\* stopped, no watch changes its stopper, and every watch that is launched
\* runs on a stopper that no earlier watch has and that is open.
C16_StoppedIsTerminal ==
    [][/\ \A c \in DOMAIN chanClosed : chanClosed[c] => chanClosed'[c]
       /\ \A w \in DOMAIN watches :
              /\ watches'[w].stopper = watches[w].stopper
              /\ watches[w].pc = "stopped" => watches'[w].pc = "stopped"
       /\ \A n \in DOMAIN watches' \ DOMAIN watches :
              /\ \A w \in DOMAIN watches : watches[w].stopper # watches'[n].stopper
              /\ ~chanClosed'[watches'[n].stopper]
              /\ watches'[n].pc = "running"]_vars

\* After Start, Shutdown and a second Start: the first watch is stopped on its
\* closed stopper, the second runs on an open one.
C16_Witness ==
    /\ Len(watches) = 2
    /\ watches[1].pc = "stopped" /\ chanClosed[watches[1].stopper]
    /\ watches[2].pc = "running" /\ ~chanClosed[watches[2].stopper]
    /\ watches[2].ns = watches[1].ns
    /\ StartSucceeded

Signalled(w) == w \in DOMAIN watches /\ chanClosed[watches[w].stopper]
LoopGone(w) == (w \in DOMAIN watches /\ watches[w].pc = "stopped") \/ ~Alive
InDelivery(w) == w \in DOMAIN watches /\ watches[w].pc = "delivering"

C18_ListOnlyAppendedByStart ==
    [][stopperChanList' # stopperChanList
          => /\ hostPc = "watch"
             /\ \E c \in DOMAIN chanClosed' : stopperChanList' = Append(stopperChanList, c)]_vars

\* C18 as stated: the handle list changes only by Start appending to it and
\* by Shutdown draining it, and when a Shutdown of a started receiver has
\* returned the list holds no handle.
C18_ListGrowsInStartDrainedInShutdown ==
    [][/\ Len(stopperChanList') > Len(stopperChanList)
              => /\ hostPc = "watch"
                 /\ \E c \in DOMAIN chanClosed' :
                        stopperChanList' = Append(stopperChanList, c)
       /\ Len(stopperChanList') < Len(stopperChanList) => hostPc \in {"close", "cancel"}
       /\ Len(stopperChanList') = Len(stopperChanList) => stopperChanList' = stopperChanList
       /\ (hostPc # "idle" /\ hostPc' = "idle" /\ lastOp' = "Shutdown")
              => Len(stopperChanList') = 0]_vars

\* C19: options are applied in order before the client is asked for; an
\* option that fails is reported to the host once, ends Start with its error
\* and leaves the later options unapplied; otherwise nothing is reported.
C19_OptionsInOrderFailFast ==
    /\ hostPc = "opts" => (applied = hostI - 1 /\ fatalReports = 0 /\ hostI <= NumOptions)
    /\ hostPc \in {"client", "watch"} => (applied = NumOptions /\ fatalReports = 0)
    /\ (StartFailed /\ lastErr = "option") => (applied < NumOptions /\ fatalReports = 1)
    /\ (StartFailed /\ lastErr = "client") => (applied = NumOptions /\ fatalReports = 0)
    /\ StartSucceeded => (applied = NumOptions /\ fatalReports = 0)

\* Start has failed at its second option.
C19_Witness ==
    StartFailed /\ lastErr = "option" /\ applied = 1 /\ fatalReports = 1

\* C20: on a receiver whose Starts have all failed, Shutdown passes the nil
\* check, closes nothing, cancels the context of the latest Start and returns
\* nil; it never panics.
C20_ShutdownAfterFailedStart ==
    [][(startCalls > 0 /\ Len(stopperChanList) = 0 /\ hostPc \in {"idle", "cancel"})
         => /\ shutdownCalls' = shutdownCalls + 1
                => (hostPc' = "cancel" /\ UNCHANGED receiverVars)
            /\ hostPc = "cancel"
                => /\ hostPc' = "idle" /\ lastOp' = "Shutdown" /\ lastErr' = "nil"
                   /\ cancel = startCalls
                   /\ ctxDone' = ctxDone \cup {cancel}
                   /\ UNCHANGED <<stopperChanList, chanClosed, watches>>]_vars

\* Shutdown has returned after a Start that failed on the client.
C20_Witness ==
    /\ ShutdownReturned /\ lastErr = "nil"
    /\ startCalls = 1 /\ applied = NumOptions
    /\ Len(watches) = 0 /\ ctxDone = {1}

====
